---- MODULE Spec2Model ----
(***************************************************************************)
(* Model of src/utils/walletPrefetch.ts: the wallet prefetch routine       *)
(* (prefetchWalletData), its two helpers (fetchTokenMetadata,              *)
(* fetchTokenPrices) and the read accessor (getCachedWalletData).          *)
(*                                                                         *)
(* The external collaborators (ledger RPC, Metaplex, the /api/birdeye      *)
(* proxy, fetchTokenData, the curated stocks dataset, process.env and      *)
(* the browser's localStorage) are the environment.  What each of them     *)
(* answers is held in variables that Init draws from small sets and that   *)
(* no action changes; the clock and localStorage are the mutable state.    *)
(*                                                                         *)
(* Numbers: a JavaScript quotient a / b is kept as the pair                *)
(* [num |-> a, den |-> b].  A falsy string (undefined, null or '') is the  *)
(* empty string.                                                           *)
(***************************************************************************)
EXTENDS Integers, Sequences, FiniteSets, TLC

\* Longest account listing an RPC call answers with.
MaxAccounts == 1

Addresses == {"A", "B"}

Mints == {"M1", "M2"}

SOL_MINT == "So11111111111111111111111111111111111111112"

LAMPORTS_PER_SOL == 1000000000

FiveMinutes == 5 * 60 * 1000

TenMinutes == 10 * 60 * 1000

programIds == <<"TOKEN_PROGRAM_ID", "TOKEN_2022_PROGRAM_ID">>

\* Instants Date.now() is observed at.
ClockValues ==
  {0, FiveMinutes - 1, FiveMinutes, FiveMinutes + 1,
   TenMinutes - 1, TenMinutes, TenMinutes + 1}

VARIABLES
  window,         \* typeof window !== 'undefined'
  storageDenied,  \* the browser refuses access to localStorage (it throws):
                  \* nothing was stored and nothing can be
  quotaExceeded,  \* localStorage.setItem throws
  rpcUrl,         \* process.env.NEXT_PUBLIC_SOLANA_RPC_URL is set
  stocksData,     \* the xStocks list of @/data/stocks.json
  balanceResp,    \* what connection.getBalance answers
  programResp,    \* per program id: what the two listing calls answer
  metaplexResp,   \* per mint: what metaplex.nfts().findByMint answers
  birdeyeResp,    \* per mint: what fetch('/api/birdeye?addresses=') answers
  priceResp,      \* per mint: what fetchTokenData answers
  now,            \* Date.now()
  localStorage,   \* key -> stored string
  op,             \* the operation that ran last
  arg,            \* its walletAddress
  exit,           \* the path prefetchWalletData left by
  outcome,        \* "returned" or "raised": what the caller saw
  calls,          \* calls the last operation issued, by callee
  ret             \* what getCachedWalletData returned

env ==
  <<window, storageDenied, quotaExceeded, rpcUrl, stocksData, balanceResp,
    programResp, metaplexResp, birdeyeResp, priceResp>>

vars ==
  <<window, storageDenied, quotaExceeded, rpcUrl, stocksData, balanceResp,
    programResp, metaplexResp, birdeyeResp, priceResp, now, localStorage,
    op, arg, exit, outcome, calls, ret>>

(***************************************************************************)
(* Values                                                                  *)
(***************************************************************************)
Throws == [kind |-> "throws"]

Null == [type |-> "null"]

Void == [type |-> "void"]

\* x || d on strings
OrElse(x, d) == IF x = "" THEN d ELSE x

RECURSIVE Pow10(_)
Pow10(d) == IF d = 0 THEN 1 ELSE 10 * Pow10(d - 1)

SeqsUpTo(S, n) == UNION {[1..k -> S] : k \in 0..n}

\* account.data.parsed.info of a parsed token account
TokenInfo(mint, amount, decimals) ==
  [mint |-> mint,
   tokenAmount |-> [amount |-> amount, decimals |-> decimals,
                    uiAmount |-> [num |-> amount, den |-> Pow10(decimals)]]]

(***************************************************************************)
(* localStorage and JSON                                                   *)
(***************************************************************************)
\* one key for every wallet
CacheKeyShared(walletAddress) == <<"wallet_cache_", "A">>

CacheKey(walletAddress) == <<"wallet_cache_", walletAddress>>

Keys == {<<"wallet_cache_", a>> : a \in Addresses}

\* getItem answers null for a missing key
NoEntry == [kind |-> "absent"]

EmptyString == [kind |-> "empty"]

\* a stored string that is not JSON
Corrupt == [kind |-> "corrupt"]

JSONstringify(v) == [kind |-> "json", value |-> v]

JSONparseThrows(s) == s.kind # "json"

JSONparse(s) == s.value

\* if (cached): null and '' are falsy
Truthy(s) == s.kind \notin {"absent", "empty"}

\* Date.now() - v.timestamp < window, for a parsed value v that is not null.
\* A value with no timestamp gives NaN, and NaN < window is false.
Within(v, t, span) == "timestamp" \in DOMAIN v /\ t - v.timestamp < span

(***************************************************************************)
(* Token accounts (lines 145-202)                                          *)
(***************************************************************************)
\* One raw account: getAccount, then getMint when the amount is positive.
\* A throw of either is caught per account (lines 187-190).
RawInfo(rawAccount) ==
  IF rawAccount.kind = "ok" /\ rawAccount.amount > 0 /\ rawAccount.mintInfo.kind = "ok"
  THEN <<[mint |-> rawAccount.mint,
          tokenAmount |-> [amount |-> rawAccount.amount,
                           decimals |-> rawAccount.mintInfo.decimals,
                           uiAmount |-> [num |-> rawAccount.amount,
                                         den |-> Pow10(rawAccount.mintInfo.decimals)]]]>>
  ELSE <<>>

RECURSIVE RawInfos(_)
RawInfos(rawAccounts) ==
  IF rawAccounts = <<>> THEN <<>>
  ELSE RawInfo(Head(rawAccounts)) \o RawInfos(Tail(rawAccounts))

\* What one iteration of the program id loop appends to tokenInfos.
ProgramInfos(resp) ==
  IF resp.parsed.kind = "throws" THEN <<>>
  ELSE IF Len(resp.parsed.value) > 0 THEN resp.parsed.value
  ELSE IF resp.raw.kind = "throws" THEN <<>>
  ELSE RawInfos(resp.raw.value)

RECURSIVE GatherInfos(_)
GatherInfos(i) ==
  IF i > Len(programIds) THEN <<>>
  ELSE ProgramInfos(programResp[i]) \o GatherInfos(i + 1)

tokenInfos == GatherInfos(1)

\* findLastIndex in place of findIndex
findIndexLast(self, mint) ==
  CHOOSE i \in 1..Len(self) :
    /\ self[i].mint = mint
    /\ \A j \in (i + 1)..Len(self) : self[j].mint # mint

\* self.findIndex((t) => t.mint === mint), 1-based
findIndex(self, mint) ==
  CHOOSE i \in 1..Len(self) :
    /\ self[i].mint = mint
    /\ \A j \in 1..(i - 1) : self[j].mint # mint

RECURSIVE FilterFirst(_, _)
FilterFirst(self, index) ==
  IF index > Len(self) THEN <<>>
  ELSE (IF index = findIndex(self, self[index].mint) THEN <<self[index]>> ELSE <<>>)
       \o FilterFirst(self, index + 1)

\* lines 200-202
processedTokens(infos) == FilterFirst(infos, 1)

(***************************************************************************)
(* Metadata (lines 34-82, 204-229)                                         *)
(***************************************************************************)
Placeholder == [symbol |-> "UNKNOWN", name |-> "Unknown Token", logoURI |-> ""]

MetaplexUsable(nft) == nft.kind = "ok" /\ nft.name # "" /\ nft.symbol # ""

BirdeyeUsable(r) == r.kind = "ok" /\ r.ok /\ r.success /\ r.hasEntry

fetchTokenMetadata(mint) ==
  LET nft == metaplexResp[mint]
      response == birdeyeResp[mint]
  IN  IF MetaplexUsable(nft)
      THEN [symbol |-> nft.symbol, name |-> nft.name, logoURI |-> OrElse(nft.image, "")]
      ELSE IF BirdeyeUsable(response)
      THEN [symbol |-> OrElse(response.symbol, "UNKNOWN"),
            name |-> OrElse(response.name, "Unknown Token"),
            logoURI |-> OrElse(response.logoURI, "")]
      ELSE Placeholder

\* new Map(stocksData.xStocks.map(stock => [stock.solanaAddress, stock])):
\* a later entry of the list replaces an earlier one with the same address.
StockAddresses == {stocksData[i].solanaAddress : i \in 1..Len(stocksData)}

stockMap ==
  [m \in StockAddresses |->
     stocksData[CHOOSE i \in 1..Len(stocksData) :
                  /\ stocksData[i].solanaAddress = m
                  /\ \A j \in (i + 1)..Len(stocksData) : stocksData[j].solanaAddress # m]]

\* the curated entry used only where the lookups found nothing
MetadataFallback(mint) ==
  LET metadata == fetchTokenMetadata(mint)
  IN  IF mint \in DOMAIN stockMap /\ metadata = Placeholder
      THEN [symbol |-> stockMap[mint].symbol, name |-> stockMap[mint].name,
            logoURI |-> stockMap[mint].logoUrl]
      ELSE metadata

\* lines 210-219: the looked-up metadata, replaced by the curated entry if any
Metadata(mint) ==
  LET metadata == fetchTokenMetadata(mint)
  IN  IF mint \in DOMAIN stockMap
      THEN [symbol |-> stockMap[mint].symbol, name |-> stockMap[mint].name,
            logoURI |-> stockMap[mint].logoUrl]
      ELSE metadata

TokenAccount(info) ==
  LET metadata == Metadata(info.mint)
  IN  [mint |-> info.mint, balance |-> info.tokenAmount.uiAmount,
       decimals |-> info.tokenAmount.decimals, symbol |-> metadata.symbol,
       name |-> metadata.name, logoURI |-> metadata.logoURI]

\* lines 205-229
RECURSIVE tokenData(_)
tokenData(processed) ==
  IF processed = <<>> THEN <<>>
  ELSE <<TokenAccount(Head(processed))>> \o tokenData(Tail(processed))

(***************************************************************************)
(* Prices (lines 85-108, 231-244)                                          *)
(***************************************************************************)
\* tokenData.map(token => token.mint)
RECURSIVE MintsOf(_)
MintsOf(data) ==
  IF data = <<>> THEN <<>> ELSE <<Head(data).mint>> \o MintsOf(Tail(data))

\* lines 232-236
tokenMints(data) ==
  LET mints == MintsOf(data)
  IN  IF \E i \in 1..Len(mints) : mints[i] = SOL_MINT THEN mints
      ELSE Append(mints, SOL_MINT)

\* One iteration of the loop of fetchTokenPrices: tokenData?.price || 0,
\* and 0 when fetchTokenData throws (lines 91-96).
PriceOf(mint) ==
  LET data == priceResp[mint]
  IN  IF data.kind = "ok" /\ "price" \in DOMAIN data THEN data.price ELSE 0

\* no try around the single lookup: one throw sends the whole batch to the
\* outer catch of lines 100-107
fetchTokenPricesBatch(mints) ==
  [m \in {mints[i] : i \in 1..Len(mints)} |->
     IF \E i \in 1..Len(mints) : priceResp[mints[i]].kind = "throws" THEN 0 ELSE PriceOf(m)]

fetchTokenPrices(mints) == [m \in {mints[i] : i \in 1..Len(mints)} |-> PriceOf(m)]

\* lines 241-244; n || 0 is n
WithPrice(token, prices) ==
  [mint |-> token.mint, balance |-> token.balance, decimals |-> token.decimals,
   symbol |-> token.symbol, name |-> token.name, logoURI |-> token.logoURI,
   price |-> prices[token.mint]]

RECURSIVE tokensWithPrices(_, _)
tokensWithPrices(data, prices) ==
  IF data = <<>> THEN <<>>
  ELSE <<WithPrice(Head(data), prices)>> \o tokensWithPrices(Tail(data), prices)

\* lines 248-252
walletCacheData(t) ==
  LET data == tokenData(processedTokens(tokenInfos))
      prices == fetchTokenPrices(tokenMints(data))
  IN  [type |-> "object",
       balance |-> [num |-> balanceResp.lamports, den |-> LAMPORTS_PER_SOL],
       tokens |-> tokensWithPrices(data, prices),
       timestamp |-> t]

(***************************************************************************)
(* Calls issued by one run of the pipeline                                 *)
(***************************************************************************)
Callees ==
  {"getItem", "setItem", "getBalance", "getParsedTokenAccountsByOwner",
   "getTokenAccountsByOwner", "getAccount", "getMint", "findByMint",
   "birdeye", "fetchTokenData"}

NetworkCallees == Callees \ {"getItem", "setItem"}

NoCalls == [c \in Callees |-> 0]

Count(S) == Cardinality(S)

RawListed(i) == programResp[i].parsed.kind = "ok" /\ Len(programResp[i].parsed.value) = 0

\* The raw accounts the loop of lines 167-191 walks, over both program ids.
RECURSIVE RawAccounts(_)
RawAccounts(i) ==
  IF i > Len(programIds) THEN <<>>
  ELSE (IF RawListed(i) /\ programResp[i].raw.kind = "ok"
        THEN programResp[i].raw.value ELSE <<>>) \o RawAccounts(i + 1)

HasAmount(rawAccount) == rawAccount.kind = "ok" /\ rawAccount.amount > 0

NeedsBirdeye(info) == ~MetaplexUsable(metaplexResp[info.mint])

PipelineCalls ==
  LET processed == processedTokens(tokenInfos)
      raws == RawAccounts(1)
  IN  [NoCalls EXCEPT
         !["getBalance"] = 1,
         !["getParsedTokenAccountsByOwner"] = Len(programIds),
         !["getTokenAccountsByOwner"] = Count({i \in 1..Len(programIds) : RawListed(i)}),
         !["getAccount"] = Len(raws),
         !["getMint"] = Len(SelectSeq(raws, HasAmount)),
         !["findByMint"] = Len(processed),
         !["birdeye"] = Len(SelectSeq(processed, NeedsBirdeye)),
         !["fetchTokenData"] = Len(tokenMints(tokenData(processed)))]

(***************************************************************************)
(* prefetchWalletData (lines 114-265)                                      *)
(***************************************************************************)
Run(how, issued, awaited) == [exit |-> how, calls |-> issued, awaited |-> awaited]

\* a one-minute window
isRecentShort(cachedData, t) == Within(cachedData, t, 60 * 1000)

\* const isRecent = Date.now() - cachedData.timestamp < 5 * 60 * 1000
isRecent(cachedData, t) == Within(cachedData, t, FiveMinutes)

\* the gate with the read accessor's window
GateTenMinutes(walletAddress) ==
  IF ~window THEN "proceed"
  ELSE IF storageDenied THEN "throw"
  ELSE LET cached == localStorage[CacheKey(walletAddress)]
       IN  IF ~Truthy(cached) THEN "proceed"
           ELSE IF JSONparseThrows(cached) THEN "throw"
           ELSE IF JSONparse(cached) = Null THEN "throw"
           ELSE IF Within(JSONparse(cached), now, TenMinutes) THEN "skip"
           ELSE "proceed"

\* Lines 118-130: "skip", "proceed", or "throw" into the catch of line 260.
Gate(walletAddress) ==
  IF ~window THEN "proceed"
  ELSE IF storageDenied THEN "throw"
  ELSE LET cached == localStorage[CacheKey(walletAddress)]
       IN  IF ~Truthy(cached) THEN "proceed"
           ELSE IF JSONparseThrows(cached) THEN "throw"
           ELSE IF JSONparse(cached) = Null THEN "throw"
           ELSE IF isRecent(JSONparse(cached), now) THEN "skip"
           ELSE "proceed"

GateCalls == [NoCalls EXCEPT !["getItem"] = IF window THEN 1 ELSE 0]

\* the write not guarded
CanStoreAlways == TRUE

\* if (typeof window !== 'undefined') of line 247
CanStore == window

\* Lines 133-259, after the gate let the call through.
Pipeline ==
  IF ~rpcUrl THEN Run("noRpcUrl", GateCalls, FALSE)
  ELSE IF balanceResp.kind = "throws"
  THEN Run("error", [GateCalls EXCEPT !["getBalance"] = 1], TRUE)
  ELSE LET issued == [PipelineCalls EXCEPT !["getItem"] = GateCalls["getItem"]]
       IN  IF ~CanStore THEN Run("discarded", issued, TRUE)
           ELSE IF quotaExceeded THEN Run("error", [issued EXCEPT !["setItem"] = 1], TRUE)
           ELSE Run("cached", [issued EXCEPT !["setItem"] = 1], TRUE)

PrefetchRun(walletAddress) ==
  LET gate == Gate(walletAddress)
  IN  IF gate = "skip" THEN Run("skip", GateCalls, FALSE)
      ELSE IF gate = "throw" THEN Run("error", GateCalls, FALSE)
      ELSE Pipeline

\* no catch
OnPrefetchErrorRethrow == "raised"

\* The catch of lines 260-264 returns.
OnPrefetchError == "returned"

prefetchWalletData(walletAddress) ==
  LET run == PrefetchRun(walletAddress)
  IN  \E t \in {x \in ClockValues : x >= now /\ (x = now \/ run.awaited)} :
        /\ now' = t
        /\ localStorage' =
             IF run.exit = "cached"
             THEN [localStorage EXCEPT
                     ![CacheKey(walletAddress)] = JSONstringify(walletCacheData(t))]
             ELSE localStorage
        /\ op' = "prefetch"
        /\ arg' = walletAddress
        /\ exit' = run.exit
        /\ outcome' = IF run.exit = "error" THEN OnPrefetchError ELSE "returned"
        /\ calls' = run.calls
        /\ ret' = Void
        /\ UNCHANGED env

(***************************************************************************)
(* getCachedWalletData (lines 270-288)                                     *)
(***************************************************************************)
\* <= in place of <
isValidInclusive(cachedData, t) == Within(cachedData, t, TenMinutes + 1)

\* const isValid = Date.now() - cachedData.timestamp < 10 * 60 * 1000
isValid(cachedData, t) == Within(cachedData, t, TenMinutes)

\* The catch of lines 285-287 returns null.
OnReadError == "returned"

\* <<what is returned, whether the catch ran>>
CachedWalletData(walletAddress) ==
  IF ~window THEN <<Null, FALSE>>
  ELSE IF storageDenied THEN <<Null, TRUE>>
  ELSE LET cached == localStorage[CacheKey(walletAddress)]
       IN  IF ~Truthy(cached) THEN <<Null, FALSE>>
           ELSE IF JSONparseThrows(cached) THEN <<Null, TRUE>>
           ELSE IF JSONparse(cached) = Null THEN <<Null, TRUE>>
           ELSE IF isValid(JSONparse(cached), now) THEN <<JSONparse(cached), FALSE>>
           ELSE <<Null, FALSE>>

getCachedWalletData(walletAddress) ==
  LET result == CachedWalletData(walletAddress)
  IN  /\ op' = "get"
      /\ arg' = walletAddress
      /\ exit' = "none"
      /\ outcome' = IF result[2] THEN OnReadError ELSE "returned"
      /\ ret' = IF result[2] /\ OnReadError = "raised" THEN Void ELSE result[1]
      /\ calls' = [NoCalls EXCEPT !["getItem"] = IF window THEN 1 ELSE 0]
      /\ UNCHANGED <<now, localStorage>>
      /\ UNCHANGED env

\* Time passes between two operations.
Tick ==
  /\ \E t \in ClockValues : t > now /\ now' = t
  /\ op' = "tick"
  /\ arg' = "none"
  /\ exit' = "none"
  /\ outcome' = "returned"
  /\ calls' = NoCalls
  /\ ret' = Void
  /\ UNCHANGED localStorage
  /\ UNCHANGED env

Prefetch == \E walletAddress \in Addresses : prefetchWalletData(walletAddress)

Read == \E walletAddress \in Addresses : getCachedWalletData(walletAddress)

Next == Prefetch \/ Read \/ Tick

(***************************************************************************)
(* What the environment may answer                                         *)
(***************************************************************************)
ParsedPool == {TokenInfo("M1", 1500000, 6), TokenInfo("M1", 7, 0), TokenInfo("M2", 5, 1)}

RawPool ==
  {Throws,
   [kind |-> "ok", amount |-> 0, mint |-> "M2", mintInfo |-> [kind |-> "ok", decimals |-> 1]],
   [kind |-> "ok", amount |-> 3, mint |-> "M1", mintInfo |-> [kind |-> "ok", decimals |-> 1]],
   [kind |-> "ok", amount |-> 5, mint |-> "M2", mintInfo |-> Throws]}

Listing(value) == [kind |-> "ok", value |-> value]

ProgramResponses ==
  {[parsed |-> Throws, raw |-> Throws]}
  \cup {[parsed |-> Listing(l), raw |-> Throws] : l \in SeqsUpTo(ParsedPool, MaxAccounts) \ {<<>>}}
  \cup {[parsed |-> Listing(<<>>), raw |-> r] :
          r \in {Throws} \cup {Listing(l) : l \in SeqsUpTo(RawPool, MaxAccounts)}}

Nft(symbol, name, image) == [kind |-> "ok", symbol |-> symbol, name |-> name, image |-> image]

MetaplexResponses ==
  {Throws, Nft("MS", "", "mi"), Nft("MS", "MN", ""), Nft("MS", "MN", "mi")}

Birdeye(ok, success, hasEntry, symbol, name, logoURI) ==
  [kind |-> "ok", ok |-> ok, success |-> success, hasEntry |-> hasEntry,
   symbol |-> symbol, name |-> name, logoURI |-> logoURI]

BirdeyeResponses ==
  {Throws,
   Birdeye(FALSE, FALSE, FALSE, "", "", ""),
   Birdeye(TRUE, FALSE, FALSE, "", "", ""),
   Birdeye(TRUE, TRUE, FALSE, "", "", ""),
   Birdeye(TRUE, TRUE, TRUE, "", "", ""),
   Birdeye(TRUE, TRUE, TRUE, "BS", "BN", "bl")}

PriceResponses ==
  {Throws, [kind |-> "null"], [kind |-> "ok"], [kind |-> "ok", price |-> 0],
   [kind |-> "ok", price |-> 10]}

Curated == <<[solanaAddress |-> "M1", symbol |-> "XYZ", name |-> "XYZ Stock", logoUrl |-> "u"]>>

Balance(lamports) == [kind |-> "ok", lamports |-> lamports]

Snapshot(t) ==
  JSONstringify([type |-> "object", balance |-> [num |-> 0, den |-> LAMPORTS_PER_SOL],
                 tokens |-> <<>>, timestamp |-> t])

\* Strings a key may hold before the first operation.
StoredStrings ==
  {NoEntry, EmptyString, Corrupt, JSONstringify(Null), Snapshot(0), Snapshot(FiveMinutes),
   JSONstringify([type |-> "object", balance |-> [num |-> 0, den |-> LAMPORTS_PER_SOL],
                  tokens |-> <<>>])}

DefaultPrograms ==
  <<[parsed |-> Listing(<<TokenInfo("M1", 1500000, 6)>>), raw |-> Throws],
    [parsed |-> Listing(<<TokenInfo("M2", 5, 1)>>), raw |-> Throws]>>

DefaultMetaplex == [m \in Mints |-> Nft("MS", "MN", "mi")]

DefaultBirdeye == [m \in Mints |-> Birdeye(TRUE, TRUE, TRUE, "BS", "BN", "bl")]

DefaultPrices ==
  [m \in Mints \cup {SOL_MINT} |->
     IF m = SOL_MINT THEN [kind |-> "ok", price |-> 20] ELSE [kind |-> "ok", price |-> 10]]

Idle ==
  /\ op = "init"
  /\ arg = "none"
  /\ exit = "none"
  /\ outcome = "returned"
  /\ calls = NoCalls
  /\ ret = Void
  /\ stocksData = Curated

\* A browser with working storage, an RPC URL and an empty cache, late on the
\* clock: the age of an entry plays no part in what the services answer.
Healthy ==
  /\ now = TenMinutes
  /\ window = TRUE
  /\ storageDenied = FALSE
  /\ quotaExceeded = FALSE
  /\ rpcUrl = TRUE
  /\ balanceResp = Balance(1500000000)
  /\ localStorage = [k \in Keys |-> NoEntry]

\* Every execution context and every stored string, one ledger.
InitContext ==
  /\ now = 0
  /\ window \in BOOLEAN
  /\ storageDenied \in (IF window THEN BOOLEAN ELSE {FALSE})
  /\ quotaExceeded \in (IF window /\ ~storageDenied THEN BOOLEAN ELSE {FALSE})
  /\ rpcUrl \in BOOLEAN
  /\ balanceResp \in (IF rpcUrl THEN {Throws, Balance(1500000000)} ELSE {Throws})
  /\ localStorage \in
       (IF window /\ ~storageDenied
        THEN [Keys -> StoredStrings]
        ELSE {[k \in Keys |-> NoEntry]})
  /\ programResp = DefaultPrograms
  /\ metaplexResp = DefaultMetaplex
  /\ birdeyeResp = DefaultBirdeye
  /\ priceResp = DefaultPrices

\* Every answer of the ledger's listing calls.
InitLedger ==
  /\ Healthy
  /\ programResp \in [1..Len(programIds) -> ProgramResponses]
  /\ metaplexResp = DefaultMetaplex
  /\ birdeyeResp = DefaultBirdeye
  /\ priceResp = DefaultPrices

\* Every answer of the two metadata services.
InitMetadata ==
  /\ Healthy
  /\ programResp = DefaultPrograms
  /\ metaplexResp \in [Mints -> MetaplexResponses]
  /\ birdeyeResp \in [Mints -> BirdeyeResponses]
  /\ priceResp = DefaultPrices

\* Every answer of the price lookup.
InitPrices ==
  /\ Healthy
  /\ programResp = DefaultPrograms
  /\ metaplexResp = DefaultMetaplex
  /\ birdeyeResp = DefaultBirdeye
  /\ priceResp \in [Mints \cup {SOL_MINT} -> PriceResponses]

Init == Idle /\ (InitContext \/ InitLedger \/ InitMetadata \/ InitPrices)

Spec == Init /\ [][Next]_vars

(***************************************************************************)
(* Properties                                                              *)
(***************************************************************************)
Stored(a) == localStorage[<<"wallet_cache_", a>>]

\* The string s is a JSON object with a timestamp less than span before t.
Younger(s, t, span) ==
  s.kind = "json" /\ "timestamp" \in DOMAIN s.value /\ t - s.value.timestamp < span

\* The string s is a JSON object with a timestamp more than span before t.
Older(s, t, span) ==
  s.kind = "json" /\ "timestamp" \in DOMAIN s.value /\ t - s.value.timestamp > span

NoNetworkCall(issued) == \A c \in NetworkCallees : issued[c] = 0

DistinctMints == {tokenInfos[i].mint : i \in 1..Len(tokenInfos)}

\* Every step of the pipeline ran once: one balance query, one parsed listing
\* per program id, one metadata resolution per distinct mint, one price lookup
\* per distinct mint and for the wrapped native mint, one cache write.
FullPipelineOnce(issued) ==
  /\ issued["getBalance"] = 1
  /\ issued["getParsedTokenAccountsByOwner"] = Len(programIds)
  /\ issued["findByMint"] = Cardinality(DistinctMints)
  /\ issued["fetchTokenData"] = Cardinality(DistinctMints \cup {SOL_MINT})
  /\ issued["setItem"] = 1

SnapshotFields == {"type", "balance", "tokens", "timestamp"}

HoldingFields == {"mint", "balance", "decimals", "symbol", "name", "logoURI", "price"}

CompleteSnapshot(s, t) ==
  /\ s.kind = "json"
  /\ DOMAIN s.value = SnapshotFields
  /\ s.value.timestamp = t
  /\ \A i \in 1..Len(s.value.tokens) : DOMAIN s.value.tokens[i] = HoldingFields

WroteSnapshot == op = "prefetch" /\ exit = "cached"

Holdings == Stored(arg).value.tokens

\* C1: a prefetch of an address whose stored entry is less than 5 minutes old
\* issues no network call, leaves localStorage as it was and returns.
C1_FreshEntrySkips ==
  [][\A a \in Addresses :
       (op' = "prefetch" /\ arg' = a /\ Younger(Stored(a), now, FiveMinutes))
         => /\ NoNetworkCall(calls')
            /\ localStorage' = localStorage
            /\ exit' = "skip"
            /\ outcome' = "returned"]_vars

\* C1: a prefetch skipped on an entry aged 5 minutes less 1 ms.
C1_Witness ==
  /\ op = "prefetch"
  /\ exit = "skip"
  /\ Stored(arg).kind = "json"
  /\ "timestamp" \in DOMAIN Stored(arg).value
  /\ now - Stored(arg).value.timestamp = FiveMinutes - 1

\* C2 as stated, read for a browser whose storage can be read: a prefetch of an
\* address whose stored entry is older than 5 minutes, or that has no stored
\* entry, runs the full pipeline once, cache write included.
C2_StaleOrAbsentRunsPipeline ==
  [][\A a \in Addresses :
       (/\ op' = "prefetch"
        /\ arg' = a
        /\ window /\ ~storageDenied
        /\ (Stored(a) = NoEntry \/ Older(Stored(a), now, FiveMinutes)))
         => (exit' = "cached" /\ FullPipelineOnce(calls'))]_vars

\* C2 amended: in a browser whose storage can be read, with the RPC URL set and
\* the balance query answering, a prefetch of an address whose stored entry is
\* older than 5 minutes, or that has no stored entry, runs the full pipeline
\* once; the write stores a snapshot stamped with the time of the write unless
\* setItem throws.
C2_StaleOrAbsentRunsPipelineWhenReachable ==
  [][\A a \in Addresses :
       (/\ op' = "prefetch"
        /\ arg' = a
        /\ (Stored(a) = NoEntry \/ Older(Stored(a), now, FiveMinutes))
        /\ window /\ ~storageDenied /\ rpcUrl /\ balanceResp.kind = "ok")
         => /\ FullPipelineOnce(calls')
            /\ outcome' = "returned"
            /\ IF quotaExceeded
               THEN exit' = "error" /\ localStorage' = localStorage
               ELSE exit' = "cached" /\ CompleteSnapshot(localStorage'[<<"wallet_cache_", a>>], now')]_vars

\* C2: a prefetch 5 minutes and 1 ms into the run went through the whole
\* pipeline and stored a snapshot stamped with that instant.
C2_Witness ==
  /\ WroteSnapshot
  /\ now = FiveMinutes + 1
  /\ Stored(arg).value.timestamp = now
  /\ FullPipelineOnce(calls)

\* C3 as stated: a stored string that is not JSON is treated as no entry: the
\* prefetch issues the calls it issues with no entry and, where that run ends
\* in the write, overwrites the string with a snapshot; the read accessor
\* returns null.
C3_CorruptTreatedAsAbsent ==
  [][\A a \in Addresses :
       Stored(a) = Corrupt
         => /\ (op' = "prefetch" /\ arg' = a) =>
                 /\ calls' = Pipeline.calls
                 /\ Pipeline.exit = "cached" => CompleteSnapshot(Stored(a)', now')
            /\ (op' = "get" /\ arg' = a) => ret' = Null]_vars

\* C4: no operation raises to its caller; the read accessor returns a snapshot
\* or null.
C4_NeverRaises ==
  /\ outcome = "returned"
  /\ op = "get" => (ret = Null \/ ret.type = "object")
  /\ op = "prefetch" => ret = Void

\* C4: a prefetch whose balance query threw, and returned.
C4_Witness ==
  /\ op = "prefetch"
  /\ exit = "error"
  /\ balanceResp = Throws
  /\ calls["getBalance"] = 1

\* C5 as stated: with no window, a prefetch issues no network call and no
\* storage write, the read accessor returns null, and neither raises.
C5_NoWindowNoOp ==
  ~window =>
    /\ outcome = "returned"
    /\ op = "prefetch" => (NoNetworkCall(calls) /\ calls["setItem"] = 0)
    /\ op = "get" => ret = Null

\* C5 amended: with no window, a prefetch reads and writes no storage and does
\* not raise, yet with the RPC URL set it issues the balance query and, when
\* that answers, the rest of the pipeline, whose snapshot is dropped; the read
\* accessor returns null without touching storage.
C5_NoWindowNoStorage ==
  ~window =>
    /\ outcome = "returned"
    /\ \A k \in Keys : localStorage[k] = NoEntry
    /\ calls["getItem"] = 0 /\ calls["setItem"] = 0
    /\ op = "prefetch" =>
         /\ exit = (IF ~rpcUrl THEN "noRpcUrl"
                    ELSE IF balanceResp = Throws THEN "error" ELSE "discarded")
         /\ calls["getBalance"] = (IF rpcUrl THEN 1 ELSE 0)
    /\ op = "get" => ret = Null

\* C5: with no window, a prefetch that ran the pipeline and dropped the result.
C5_Witness ==
  /\ ~window
  /\ op = "prefetch"
  /\ exit = "discarded"
  /\ calls["getBalance"] = 1
  /\ calls["fetchTokenData"] > 0

\* C6: the read accessor returns the stored entry exactly when there is one
\* whose timestamp is less than 10 minutes before now.
C6_ReadWindow ==
  op = "get" =>
    /\ ret # Null <=> Younger(Stored(arg), now, TenMinutes)
    /\ ret # Null => ret = Stored(arg).value

\* C6: an entry aged 10 minutes less 1 ms was returned.
C6_Witness ==
  /\ op = "get"
  /\ ret # Null
  /\ now - ret.timestamp = TenMinutes - 1

FirstOccurrence(mint) ==
  CHOOSE k \in 1..Len(tokenInfos) :
    /\ tokenInfos[k].mint = mint
    /\ \A j \in 1..(k - 1) : tokenInfos[j].mint # mint

CuratedEntries(mint) ==
  {stocksData[k] : k \in {k \in 1..Len(stocksData) : stocksData[k].solanaAddress = mint}}

\* C8: a holding whose mint is in the curated dataset carries the curated
\* symbol, name and logo whatever the lookups answered; any other holding
\* carries what the marketplace, API, placeholder chain resolved.
C8_CuratedOverride ==
  WroteSnapshot =>
    \A i \in 1..Len(Holdings) :
      LET h == Holdings[i]
          resolved == fetchTokenMetadata(h.mint)
      IN  IF CuratedEntries(h.mint) # {}
          THEN \E stock \in CuratedEntries(h.mint) :
                 /\ h.symbol = stock.symbol
                 /\ h.name = stock.name
                 /\ h.logoURI = stock.logoUrl
          ELSE /\ h.symbol = resolved.symbol
               /\ h.name = resolved.name
               /\ h.logoURI = resolved.logoURI

\* C8: a curated holding for whose mint the marketplace lookup answered with a
\* usable symbol and name of its own.
C8_Witness ==
  /\ WroteSnapshot
  /\ \E i \in 1..Len(Holdings) :
       /\ CuratedEntries(Holdings[i].mint) # {}
       /\ MetaplexUsable(metaplexResp[Holdings[i].mint])
       /\ Holdings[i].symbol # metaplexResp[Holdings[i].mint].symbol

NoPrice(data) == data.kind # "ok" \/ "price" \notin DOMAIN data

\* C9: a holding whose price lookup threw or gave no price is priced 0, every
\* other holding carries the price looked up for it, and a prefetch ends in the
\* catch only for a cause other than a price lookup.
C9_PriceDefaultsToZero ==
  /\ WroteSnapshot =>
       \A i \in 1..Len(Holdings) :
         LET data == priceResp[Holdings[i].mint]
         IN  Holdings[i].price = (IF NoPrice(data) THEN 0 ELSE data.price)
  /\ (op = "prefetch" /\ exit = "error") =>
       \/ storageDenied
       \/ quotaExceeded
       \/ balanceResp = Throws
       \/ Stored(arg) \in {Corrupt, JSONstringify(Null)}

\* C9: a snapshot with a holding whose lookup threw and a holding priced 10.
C9_Witness ==
  /\ WroteSnapshot
  /\ \E i, j \in 1..Len(Holdings) :
       /\ priceResp[Holdings[i].mint] = Throws
       /\ Holdings[i].price = 0
       /\ Holdings[j].price = 10

\* C10: a prefetch changes localStorage in one way at most: the key of its own
\* address comes to hold a complete snapshot, written after the pipeline ran;
\* on every other way out nothing stored changes.
C10_SingleWrite ==
  [][op' = "prefetch" =>
       /\ \A a \in Addresses :
            Stored(a)' # Stored(a)
              => /\ a = arg'
                 /\ exit' = "cached"
                 /\ CompleteSnapshot(Stored(a)', now')
                 /\ FullPipelineOnce(calls')
       /\ exit' # "cached" => localStorage' = localStorage
       /\ DOMAIN localStorage' = DOMAIN localStorage]_vars

\* C10: a snapshot written for one address while the other holds an entry.
C10_Witness ==
  /\ WroteSnapshot
  /\ \E a \in Addresses : a # arg /\ Stored(a).kind = "json" /\ Stored(a) # Stored(arg)

====
